---- MODULE Spec2Model ----
(***************************************************************************)
(* Missing-value statistics of scripts/count_missing_nested.py and         *)
(* scripts/count_missing.py.                                                *)
(*                                                                         *)
(* Python values are tagged records; a str is the sequence of its          *)
(* characters; a dict is the sequence of its items in insertion order      *)
(* (keys pairwise distinct); a set is a set.                               *)
(***************************************************************************)
EXTENDS Integers, Sequences, FiniteSets, TLC

VARIABLES
    \* count_missing_nested.py: main / analyze_json_structure / report_counts
    data,            \* the value json.load returned
    pc,              \* position in main
    i,               \* 1-based index of the next item of the running for loop
    total_records,
    all_keys,
    missing_counts,  \* defaultdict(int): function over the keys written so far
    report,          \* what report_counts computed
    err,             \* the exception that ended the script, or "none"
    \* flatten_dict called on its own
    d, parent_key, flat, fpc,
    \* is_missing called on its own
    value, result, mpc,
    \* count_missing.py: csv_with_stdlib
    row, header, counts, total, ncols, cpc,
    \* count_missing.py: json_with_stdlib
    jdata, jpc, ji, jtotal, jkeys, jcounts, jerr

nestedVars == <<data, pc, i, total_records, all_keys, missing_counts, report, err>>
flatVars == <<d, parent_key, flat, fpc>>
missVars == <<value, result, mpc>>
csvVars == <<row, header, counts, total, ncols, cpc>>
jsonVars == <<jdata, jpc, ji, jtotal, jkeys, jcounts, jerr>>
vars == <<nestedVars, flatVars, missVars, csvVars, jsonVars>>

----------------------------------------------------------------------------
(* Python values *)

None == [kind |-> "null"]
Num(n) == [kind |-> "num", n |-> n]
Bool(b) == [kind |-> "bool", b |-> b]
Str(s) == [kind |-> "str", s |-> s]
List(elems) == [kind |-> "list", elems |-> elems]
Dict(items) == [kind |-> "dict", items |-> items]
Item(k, v) == [k |-> k, v |-> v]

isinstance_dict(v) == v.kind = "dict"
isinstance_list(v) == v.kind = "list"
isinstance_str(v) == v.kind = "str"

\* d.keys()
dict_keys(items) == {items[j].k : j \in 1..Len(items)}

\* d.get(key, None)
dict_get(items, key) ==
    IF key \in dict_keys(items)
    THEN items[CHOOSE j \in 1..Len(items) : items[j].k = key].v
    ELSE None

\* dict(items): first insertion fixes the position, the last value wins
RECURSIVE dict_from_items(_)
dict_from_items(items) ==
    IF items = <<>> THEN <<>>
    ELSE LET init == dict_from_items(SubSeq(items, 1, Len(items) - 1))
             last == items[Len(items)]
         IN IF last.k \in dict_keys(init)
            THEN [j \in 1..Len(init) |-> IF init[j].k = last.k THEN last ELSE init[j]]
            ELSE Append(init, last)

----------------------------------------------------------------------------
(* str.strip() and str.lower() *)

Whitespace == {" ", "\t", "\n", "\r", "\f"}

UpperCase == <<"A","B","C","D","E","F","G","H","I","J","K","L","M",
               "N","O","P","Q","R","S","T","U","V","W","X","Y","Z">>
LowerCase == <<"a","b","c","d","e","f","g","h","i","j","k","l","m",
               "n","o","p","q","r","s","t","u","v","w","x","y","z">>

lower_char(c) ==
    IF \E j \in 1..Len(UpperCase) : UpperCase[j] = c
    THEN LowerCase[CHOOSE j \in 1..Len(UpperCase) : UpperCase[j] = c]
    ELSE c

lower(s) == [j \in 1..Len(s) |-> lower_char(s[j])]

RECURSIVE lstrip(_)
lstrip(s) == IF s # <<>> /\ Head(s) \in Whitespace THEN lstrip(Tail(s)) ELSE s

RECURSIVE rstrip(_)
rstrip(s) ==
    IF s # <<>> /\ s[Len(s)] \in Whitespace THEN rstrip(SubSeq(s, 1, Len(s) - 1)) ELSE s

strip(s) == rstrip(lstrip(s))

----------------------------------------------------------------------------
(* count_missing_nested.py *)

DEFAULT_MISSING ==
    { <<>>, <<"n","a">>, <<"n","/","a">>, <<"n","u","l","l">>, <<"n","o","n","e">> }

\* faulty variant: a falsy value (0, False, [], {}, "") is taken for a missing one
is_missing_falsy(v) ==
    \/ v.kind = "null"
    \/ v.kind = "num" /\ v.n = 0
    \/ v.kind = "bool" /\ ~v.b
    \/ v.kind = "list" /\ v.elems = <<>>
    \/ v.kind = "dict" /\ v.items = <<>>
    \/ isinstance_str(v) /\ lower(strip(v.s)) \in DEFAULT_MISSING

is_missing(v) ==
    IF v.kind = "null" THEN TRUE
    ELSE IF isinstance_str(v) /\ lower(strip(v.s)) \in DEFAULT_MISSING THEN TRUE
    ELSE FALSE

sep == <<".">>

RECURSIVE flatten_dict(_, _)
RECURSIVE flatten_loop(_, _)

\* the for loop of flatten_dict: the list `items` it builds from d.items()
flatten_loop(ditems, pkey) ==
    IF ditems = <<>> THEN <<>>
    ELSE LET k == Head(ditems).k
             v == Head(ditems).v
             new_key == IF pkey # <<>> THEN pkey \o sep \o k ELSE k
             here == IF isinstance_dict(v)
                     THEN flatten_dict(v, new_key)
                     ELSE <<Item(new_key, v)>>
         IN here \o flatten_loop(Tail(ditems), pkey)

\* returns the items of the flat dict
flatten_dict(dct, pkey) == dict_from_items(flatten_loop(dct.items, pkey))

----------------------------------------------------------------------------
(* analyze_json_structure *)

\* defaultdict(int)
EmptyCounts == [k \in {} |-> 0]
dd_get(mc, key) == IF key \in DOMAIN mc THEN mc[key] ELSE 0

\* faulty variant: all_keys = set(flat_item.keys()) instead of all_keys.update(...)
collect_item_assign(keys, item) ==
    IF isinstance_dict(item) THEN dict_keys(flatten_dict(item, <<>>)) ELSE keys

\* body of the first for loop, for one item
collect_item(keys, item) ==
    IF isinstance_dict(item)
    THEN keys \cup dict_keys(flatten_dict(item, <<>>))
    ELSE keys

\* faulty variant: a key the record lacks is not counted
count_item_present_only(mc, item, keys) ==
    IF isinstance_dict(item)
    THEN LET flat_item == flatten_dict(item, <<>>)
             hit == {key \in keys : key \in dict_keys(flat_item)
                                    /\ is_missing(dict_get(flat_item, key))}
         IN [k \in DOMAIN mc \cup hit |-> dd_get(mc, k) + IF k \in hit THEN 1 ELSE 0]
    ELSE mc

\* faulty variant: a key the record lacks is counted by a test of its own and again
\* by is_missing(None)
count_item_twice(mc, item, keys) ==
    IF isinstance_dict(item)
    THEN LET flat_item == flatten_dict(item, <<>>)
             hit == {key \in keys : is_missing(dict_get(flat_item, key))}
             lack == {key \in keys : key \notin dict_keys(flat_item)}
         IN [k \in DOMAIN mc \cup hit |->
                dd_get(mc, k) + (IF k \in hit THEN 1 ELSE 0) + (IF k \in lack THEN 1 ELSE 0)]
    ELSE mc

\* body of the second for loop, for one item: the inner loop over all_keys
count_item(mc, item, keys) ==
    IF isinstance_dict(item)
    THEN LET flat_item == flatten_dict(item, <<>>)
             hit == {key \in keys : is_missing(dict_get(flat_item, key))}
         IN [k \in DOMAIN mc \cup hit |-> dd_get(mc, k) + IF k \in hit THEN 1 ELSE 0]
    ELSE mc

RECURSIVE collect_loop(_, _)
collect_loop(elems, keys) ==
    IF elems = <<>> THEN keys
    ELSE collect_loop(Tail(elems), collect_item(keys, Head(elems)))

RECURSIVE count_loop(_, _, _)
count_loop(elems, mc, keys) ==
    IF elems = <<>> THEN mc
    ELSE count_loop(Tail(elems), count_item(mc, Head(elems), keys), keys)

\* the value analyze_json_structure returns for a list
analyze_json_structure(dat) ==
    LET keys == collect_loop(dat.elems, {})
    IN [missing_counts |-> count_loop(dat.elems, EmptyCounts, keys),
        total_records |-> Len(dat.elems),
        all_keys |-> keys]

----------------------------------------------------------------------------
(* report_counts *)

RECURSIVE gcd(_, _)
gcd(a, b) == IF b = 0 THEN a ELSE gcd(b, a % b)

\* a float, kept as the exact fraction in lowest terms
ZeroRate == [ok |-> TRUE, num |-> 0, den |-> 1]
ZeroDivisionError == [ok |-> FALSE, num |-> 0, den |-> 0]

\* a / b * 100
percent(a, b) ==
    IF b = 0 THEN ZeroDivisionError
    ELSE LET g == gcd(a * 100, b) IN [ok |-> TRUE, num |-> (a * 100) \div g, den |-> b \div g]

\* faulty variant: the guard `if total_cells > 0` is left out
overall_rate_unguarded(total_missing, total_cells) == percent(total_missing, total_cells)

field_rate(count, total_recs) == IF total_recs > 0 THEN percent(count, total_recs) ELSE ZeroRate
overall_rate_of(total_missing, total_cells) ==
    IF total_cells > 0 THEN percent(total_missing, total_cells) ELSE ZeroRate

RECURSIVE sum_values(_)
sum_values(mc) ==
    IF DOMAIN mc = {} THEN 0
    ELSE LET k == CHOOSE x \in DOMAIN mc : TRUE
         IN mc[k] + sum_values([x \in DOMAIN mc \ {k} |-> mc[x]])

\* faulty variant: 0 <= count in place of 0 < count
partially_missing_from_zero(mc, total_recs, keys) ==
    {k \in keys : 0 <= dd_get(mc, k) /\ dd_get(mc, k) < total_recs}

completely_missing_fields(mc, total_recs, keys) == {k \in keys : dd_get(mc, k) = total_recs}
partially_missing_fields(mc, total_recs, keys) ==
    {k \in keys : 0 < dd_get(mc, k) /\ dd_get(mc, k) < total_recs}
no_missing_fields(mc, total_recs, keys) == {k \in keys : dd_get(mc, k) = 0}

NoReport ==
    [rates |-> EmptyCounts, total_cells |-> 0, total_missing |-> 0, overall_rate |-> ZeroRate,
     completely_missing |-> {}, partially_missing |-> {}, partial_rates |-> EmptyCounts,
     no_missing |-> {}]

build_report(mc, total_recs, keys) ==
    LET touched == [k \in DOMAIN mc \cup keys |-> dd_get(mc, k)]
        cells == Cardinality(keys) * total_recs
        partial == partially_missing_fields(touched, total_recs, keys)
    IN [rates |-> [k \in keys |-> field_rate(touched[k], total_recs)],
        total_cells |-> cells,
        total_missing |-> sum_values(touched),
        overall_rate |-> overall_rate_of(sum_values(touched), cells),
        completely_missing |-> completely_missing_fields(touched, total_recs, keys),
        partially_missing |-> partial,
        partial_rates |-> [k \in partial |-> percent(touched[k], total_recs)],
        no_missing |-> no_missing_fields(touched, total_recs, keys)]

report_failed(r) ==
    \/ ~r.overall_rate.ok
    \/ \E k \in DOMAIN r.rates : ~r.rates[k].ok
    \/ \E k \in DOMAIN r.partial_rates : ~r.partial_rates[k].ok

----------------------------------------------------------------------------
(* Inputs of count_missing_nested.py *)

MaxRecords == 3

SeqsUpTo(S, n) == UNION {[1..m -> S] : m \in 0..n}

\* records of the shapes the analyser meets: flat, nested, empty, sparse
Records ==
    { Dict(<<>>),
      Dict(<<Item(<<"a">>, Str(<<"o","k">>))>>),
      Dict(<<Item(<<"a">>, Str(<<" ","N","A">>))>>),
      Dict(<<Item(<<"x">>, Dict(<<>>))>>),
      Dict(<<Item(<<"x">>, Dict(<<Item(<<"y">>, Num(1))>>))>>),
      Dict(<<Item(<<"x">>, Dict(<<Item(<<"y">>, None)>>))>>),
      Dict(<<Item(<<"a">>, Str(<<"o","k">>)), Item(<<"x">>, None)>>),
      Dict(<<Item(<<"a">>, Str(<<"o","k">>)), Item(<<"x">>, Dict(<<Item(<<"y">>, Num(1))>>))>>),
      Dict(<<Item(<<"a">>, Str(<<"n","/","a">>)), Item(<<"x">>, Dict(<<Item(<<"y">>, None)>>))>>) }
NonObjects == {Num(5)}
Members == Records \cup NonObjects
NonListRoots == {Dict(<<Item(<<"a">>, List(<<Num(1)>>))>>), Str(<<"o","k">>), None}
Roots == {List(elems) : elems \in SeqsUpTo(Members, MaxRecords)} \cup NonListRoots

IdleNested ==
    /\ data = None /\ pc = "idle" /\ i = 0 /\ total_records = 0 /\ all_keys = {}
    /\ missing_counts = EmptyCounts /\ report = NoReport /\ err = "none"
IdleFlat == d = Dict(<<>>) /\ parent_key = <<>> /\ flat = <<>> /\ fpc = "idle"
IdleMiss == value = None /\ result = FALSE /\ mpc = "idle"
IdleCsv ==
    /\ row = <<>> /\ header = <<>> /\ counts = EmptyCounts /\ total = 0 /\ ncols = 0
    /\ cpc = "idle"

IdleJson ==
    /\ jdata = None /\ jpc = "idle" /\ ji = 0 /\ jtotal = 0 /\ jkeys = {}
    /\ jcounts = EmptyCounts /\ jerr = "none"

\* main, after json.load
InitNested ==
    /\ data \in Roots
    /\ pc = "start" /\ i = 0 /\ total_records = 0 /\ all_keys = {}
    /\ missing_counts = EmptyCounts /\ report = NoReport /\ err = "none"

\* analyze_json_structure: the root test
analyze_reject ==
    /\ pc = "start"
    /\ ~isinstance_list(data)
    /\ err' = "SystemExit"
    /\ pc' = "exit"
    /\ UNCHANGED <<data, i, total_records, all_keys, missing_counts, report, flatVars, missVars, csvVars, jsonVars>>

analyze_enter ==
    /\ pc = "start"
    /\ isinstance_list(data)
    /\ total_records' = Len(data.elems)
    /\ all_keys' = {}
    /\ i' = 1
    /\ pc' = "collect"
    /\ UNCHANGED <<data, missing_counts, report, err, flatVars, missVars, csvVars, jsonVars>>

\* one turn of the first loop
collect_step ==
    /\ pc = "collect"
    /\ i <= Len(data.elems)
    /\ all_keys' = collect_item(all_keys, data.elems[i])
    /\ i' = i + 1
    /\ UNCHANGED <<data, pc, total_records, missing_counts, report, err, flatVars, missVars, csvVars, jsonVars>>

collect_done ==
    /\ pc = "collect"
    /\ i > Len(data.elems)
    /\ missing_counts' = EmptyCounts
    /\ i' = 1
    /\ pc' = "count"
    /\ UNCHANGED <<data, total_records, all_keys, report, err, flatVars, missVars, csvVars, jsonVars>>

\* one turn of the second loop
count_step ==
    /\ pc = "count"
    /\ i <= Len(data.elems)
    /\ missing_counts' = count_item(missing_counts, data.elems[i], all_keys)
    /\ i' = i + 1
    /\ UNCHANGED <<data, pc, total_records, all_keys, report, err, flatVars, missVars, csvVars, jsonVars>>

analyze_return ==
    /\ pc = "count"
    /\ i > Len(data.elems)
    /\ pc' = "analyzed"
    /\ UNCHANGED <<data, i, total_records, all_keys, missing_counts, report, err, flatVars, missVars, csvVars, jsonVars>>

report_counts ==
    /\ pc = "analyzed"
    /\ LET r == build_report(missing_counts, total_records, all_keys)
       IN /\ report' = r
          /\ missing_counts' = [k \in DOMAIN missing_counts \cup all_keys |->
                                   dd_get(missing_counts, k)]
          /\ IF report_failed(r)
             THEN err' = "ZeroDivisionError" /\ pc' = "exit"
             ELSE err' = err /\ pc' = "done"
    /\ UNCHANGED <<data, i, total_records, all_keys, flatVars, missVars, csvVars, jsonVars>>

NextNested ==
    \/ analyze_reject
    \/ analyze_enter
    \/ collect_step
    \/ collect_done
    \/ count_step
    \/ analyze_return
    \/ report_counts

Init == InitNested /\ IdleFlat /\ IdleMiss /\ IdleCsv /\ IdleJson
Next == NextNested
Spec == Init /\ [][Next]_vars

----------------------------------------------------------------------------
(* Properties of count_missing_nested.py *)

AllObjects == isinstance_list(data) /\ \A j \in 1..Len(data.elems) : isinstance_dict(data.elems[j])
StructureError == ~AllObjects
Returned == pc \in {"analyzed", "done"}
FlatOf(j) == flatten_dict(data.elems[j], <<>>)
Bijections(n) == {f \in [1..n -> 1..n] : \A p, q \in 1..n : p # q => f[p] # f[q]}
Permuted(elems) == {[j \in 1..Len(elems) |-> elems[f[j]]] : f \in Bijections(Len(elems))}

\* C1: when the root is not a list, or the list has a member that is not a
\* dict, analyze_json_structure ends in the fatal error and returns nothing.
C1_NonObjectMemberIsFatal == StructureError => ~Returned

\* C2: over a list of dicts, the count returned for a key is the number of
\* records whose flat form lacks the key or binds it to a missing value, and
\* total_records is the number of records.
C2_CountIsLackingOrMissing ==
    (pc = "analyzed" /\ AllObjects) =>
        /\ total_records = Len(data.elems)
        /\ \A k \in all_keys :
              dd_get(missing_counts, k) =
                  Cardinality({j \in 1..Len(data.elems) :
                                  \/ k \notin dict_keys(FlatOf(j))
                                  \/ is_missing(dict_get(FlatOf(j), k))})

C2_Witness ==
    /\ pc = "analyzed" /\ AllObjects /\ Len(data.elems) = 3
    /\ \E k \in all_keys :
          /\ \E j \in 1..3 : k \notin dict_keys(FlatOf(j))
          /\ \E j \in 1..3 : k \in dict_keys(FlatOf(j)) /\ is_missing(dict_get(FlatOf(j), k))
          /\ \E j \in 1..3 : k \in dict_keys(FlatOf(j)) /\ ~is_missing(dict_get(FlatOf(j), k))
          /\ missing_counts[k] = 2

\* the number of items the counting loop has been through
Processed ==
    IF pc = "count" THEN i - 1
    ELSE IF Returned THEN total_records
    ELSE 0

\* C3: every count is between 0 and the number of records processed so far,
\* hence between 0 and total_records in the result.
C3_CountWithinProcessed ==
    /\ Processed <= total_records
    /\ \A k \in all_keys \cup DOMAIN missing_counts :
          0 <= dd_get(missing_counts, k) /\ dd_get(missing_counts, k) <= Processed

C3_Witness ==
    /\ pc = "count" /\ i = 3 /\ Len(data.elems) = 3
    /\ \E k \in all_keys : dd_get(missing_counts, k) = 2
    /\ \E k \in all_keys : dd_get(missing_counts, k) = 1

\* C4: the three field lists of report_counts are pairwise disjoint and cover
\* the key universe; each holds the fields its test names.
C4_PartitionOfKeyUniverse ==
    pc = "done" =>
        /\ report.completely_missing \cap report.partially_missing = {}
        /\ report.completely_missing \cap report.no_missing = {}
        /\ report.partially_missing \cap report.no_missing = {}
        /\ report.completely_missing \cup report.partially_missing \cup report.no_missing
              = all_keys
        /\ \A k \in all_keys :
              /\ k \in report.completely_missing
                    <=> (missing_counts[k] = total_records /\ total_records > 0)
              /\ k \in report.no_missing <=> missing_counts[k] = 0

C4_Witness ==
    /\ pc = "done"
    /\ report.completely_missing # {}
    /\ report.partially_missing # {}
    /\ report.no_missing # {}

\* C8: for the empty list the analysis and the report end without an error,
\* with no record, no field, an overall rate of 0.0 and three empty lists; no
\* rate is computed by a division by zero.
C8_EmptyDataset ==
    /\ err # "ZeroDivisionError"
    /\ data = List(<<>>) =>
          /\ err = "none" /\ pc # "exit"
          /\ pc = "done" =>
                /\ total_records = 0
                /\ Cardinality(all_keys) = 0
                /\ report.total_cells = 0
                /\ report.overall_rate = ZeroRate
                /\ report.completely_missing = {}
                /\ report.partially_missing = {}
                /\ report.no_missing = {}
                /\ \A k \in DOMAIN report.rates : report.rates[k] = ZeroRate

C8_Witness == data = List(<<>>) /\ pc = "done" /\ report.overall_rate = ZeroRate

\* C9: whatever the order of the records, analyze_json_structure returns the
\* same key universe, total and counts; the key universe is the union of the
\* key sets of the flattened records.
C9_OrderIndependent ==
    pc = "analyzed" =>
        /\ \A p \in Permuted(data.elems) :
              analyze_json_structure(List(p)) =
                  [missing_counts |-> missing_counts,
                   total_records |-> total_records,
                   all_keys |-> all_keys]
        /\ all_keys = UNION {dict_keys(FlatOf(j)) :
                                j \in {q \in 1..Len(data.elems) : isinstance_dict(data.elems[q])}}

C9_Witness ==
    /\ pc = "analyzed" /\ AllObjects /\ Len(data.elems) = 3
    /\ data.elems[1] # data.elems[2] /\ data.elems[2] # data.elems[3]
    /\ data.elems[1] # data.elems[3]
    /\ \E j \in 1..3 : dict_keys(FlatOf(j)) # all_keys /\ dict_keys(FlatOf(j)) # {}
    /\ \E k \in all_keys : 0 < missing_counts[k] /\ missing_counts[k] < 3

----------------------------------------------------------------------------
(* flatten_dict on its own *)

MaxItems == 3

FlatKeys == { <<>>, <<"a">>, <<"b">>, <<"a",".","b">> }
LeafValues == { Num(1), Num(2), List(<<Num(1), Dict(<<Item(<<"b">>, Num(2))>>)>>) }

\* the item lists of the dicts that hold n items in all, nested ones included;
\* the keys of one dict are pairwise distinct
RECURSIVE ItemLists(_)
ItemLists(n) ==
    IF n = 0 THEN {<<>>}
    ELSE UNION { LET values == IF m = 0 THEN LeafValues \cup {Dict(<<>>)}
                               ELSE {Dict(x) : x \in ItemLists(m)}
                 IN UNION { { <<Item(k, v)>> \o rest :
                                k \in FlatKeys \ dict_keys(rest), v \in values }
                            : rest \in ItemLists(n - 1 - m) }
                 : m \in 0..(n - 1) }

\* the dicts of at most n items in all
FlattenInputs(n) == {Dict(x) : x \in UNION {ItemLists(m) : m \in 0..n}}

FlattenEntry ==
    /\ d \in FlattenInputs(MaxItems)
    /\ parent_key \in {<<>>, <<"p">>}
    /\ flat = <<>>
    /\ fpc = "call"

flatten_call ==
    /\ fpc = "call"
    /\ flat' = flatten_dict(d, parent_key)
    /\ fpc' = "returned"
    /\ UNCHANGED <<d, parent_key, nestedVars, missVars, csvVars, jsonVars>>

NextFlatten == flatten_call
InitFlatten == FlattenEntry /\ IdleNested /\ IdleMiss /\ IdleCsv /\ IdleJson
SpecFlatten == InitFlatten /\ [][NextFlatten]_vars


(* Properties of flatten_dict *)

\* the non-dict leaves of a dict, each with the chain of keys that reaches it
RECURSIVE LeavesOf(_, _)
LeavesOf(items, chain) ==
    UNION { IF isinstance_dict(items[j].v)
            THEN LeavesOf(items[j].v.items, Append(chain, items[j].k))
            ELSE {[chain |-> Append(chain, items[j].k), v |-> items[j].v]}
            : j \in 1..Len(items) }

RECURSIVE Dotted(_)
Dotted(chain) ==
    IF Len(chain) = 1 THEN chain[1]
    ELSE Dotted(SubSeq(chain, 1, Len(chain) - 1)) \o sep \o chain[Len(chain)]

\* the prefix a call with parent_key stands for: "" at the top, parent_key + "." below
PrefixOf(pkey) == IF pkey = <<>> THEN <<>> ELSE pkey \o sep
PathOf(leaf) == PrefixOf(parent_key) \o Dotted(leaf.chain)

\* C5: the leaf reached through the keys k1..kn, the empty key included, is
\* bound to prefix + k1.k2...kn; a list is a leaf, stored as it is. (A leaf that
\* shares its path with another may hold the other's value.)
C5_LeafBoundToDottedPath ==
    fpc = "returned" =>
        LET leaves == LeavesOf(d.items, <<>>)
        IN /\ dict_keys(flat) = {PathOf(l) : l \in leaves}
           /\ \A l \in leaves :
                 \E m \in leaves : PathOf(m) = PathOf(l) /\ dict_get(flat, PathOf(l)) = m.v

\* C6: the flat dict has one entry for each non-dict leaf of the record.
C6_OneEntryPerLeaf ==
    fpc = "returned" => Len(flat) = Cardinality(LeavesOf(d.items, <<>>))

----------------------------------------------------------------------------
(* is_missing on its own *)

MaxStrLen == 4

Chars == {"n", "a", "u", "l", "o", "e", "/", " ", "N", "0"}
MissingInputs ==
    {None, Num(0), Num(1), Bool(FALSE), Bool(TRUE), List(<<>>), List(<<None>>),
     Dict(<<>>), Dict(<<Item(<<"a">>, None)>>)}
        \cup {Str(s) : s \in SeqsUpTo(Chars, MaxStrLen)}

MissingEntry == value \in MissingInputs /\ result = FALSE /\ mpc = "call"

is_missing_call ==
    /\ mpc = "call"
    /\ result' = is_missing(value)
    /\ mpc' = "returned"
    /\ UNCHANGED <<value, nestedVars, flatVars, csvVars, jsonVars>>

NextMissing == is_missing_call
InitMissing == MissingEntry /\ IdleNested /\ IdleFlat /\ IdleCsv /\ IdleJson
SpecMissing == InitMissing /\ [][NextMissing]_vars

(* Properties of is_missing *)

MissingTokens ==
    { <<>>, <<"n","a">>, <<"n","/","a">>, <<"n","u","l","l">>, <<"n","o","n","e">> }

SameLetter(c, t) ==
    c = t \/ \E j \in 1..Len(LowerCase) : LowerCase[j] = t /\ UpperCase[j] = c

\* s is tok in some mix of cases, between two runs of white space
PaddedToken(s, tok) ==
    \E lo \in 0..Len(s) :
        /\ lo + Len(tok) <= Len(s)
        /\ \A j \in 1..lo : s[j] \in Whitespace
        /\ \A j \in 1..Len(tok) : SameLetter(s[lo + j], tok[j])
        /\ \A j \in (lo + Len(tok) + 1)..Len(s) : s[j] \in Whitespace

\* C7: is_missing answers for every value; the answer is TRUE exactly for None
\* (an absent key reads as None) and for a string that is a missing token once
\* trimmed and lower-cased; "0", 0, False, [] and {} are not missing.
C7_MissingRule ==
    mpc = "returned" =>
        /\ result \in BOOLEAN
        /\ result <=> \/ value = None
                      \/ /\ value.kind = "str"
                         /\ \E tok \in MissingTokens : PaddedToken(value.s, tok)
        /\ value \in {Str(<<"0">>), Num(0), Bool(FALSE), List(<<>>), Dict(<<>>)} => ~result

C7_Witness ==
    /\ mpc = "returned"
    /\ value = Str(<<" ", "N", "/", "a">>)
    /\ result

----------------------------------------------------------------------------
(* count_missing.py: csv_with_stdlib. csv.reader yields the rows of the     *)
(* file one at a time, the header row first; a cell is a str.               *)

MaxCols == 2
MaxRows == 2

ColumnNames == { <<"a">>, <<"b">> }
Cells == { <<>>, <<"x">>, <<" ","N","A">> }
HeaderRows == SeqsUpTo(ColumnNames, MaxCols)
DataRows == SeqsUpTo(Cells, MaxCols + 1)
NoRow == <<>>

\* the loop `for i in range(ncols)` from column c on (c counts from 1)
RECURSIVE csv_count_row(_, _, _, _, _, _)
csv_count_row(cnt, hdr, n, r, c, missing_set) ==
    IF c > n THEN cnt
    ELSE LET val == IF c <= Len(r) THEN strip(r[c]) ELSE <<>>
             cnt1 == IF lower(val) \in missing_set
                     THEN [k \in DOMAIN cnt \cup {hdr[c]} |->
                              dd_get(cnt, k) + IF k = hdr[c] THEN 1 ELSE 0]
                     ELSE cnt
         IN csv_count_row(cnt1, hdr, n, r, c + 1, missing_set)

CsvEntry ==
    /\ row = NoRow /\ header = <<>> /\ counts = EmptyCounts /\ total = 0 /\ ncols = 0
    /\ cpc = "open"

\* the file is empty, next(reader) raises StopIteration: return {}, 0
csv_no_header ==
    /\ cpc = "open"
    /\ counts' = EmptyCounts
    /\ total' = 0
    /\ cpc' = "returned"
    /\ UNCHANGED <<row, header, ncols, nestedVars, flatVars, missVars, jsonVars>>

csv_read_header ==
    /\ cpc = "open"
    /\ \E h \in HeaderRows :
          /\ header' = h
          /\ ncols' = Len(h)
    /\ counts' = EmptyCounts
    /\ total' = 0
    /\ cpc' = "rows"
    /\ UNCHANGED <<row, nestedVars, flatVars, missVars, jsonVars>>

\* one turn of `for row in reader`
csv_read_row ==
    /\ cpc = "rows"
    /\ total < MaxRows
    /\ \E r \in DataRows :
          /\ row' = r
          /\ total' = total + 1
          /\ counts' = csv_count_row(counts, header, ncols, r, 1, DEFAULT_MISSING)
    /\ UNCHANGED <<header, ncols, cpc, nestedVars, flatVars, missVars, jsonVars>>

\* the reader is exhausted
csv_return ==
    /\ cpc = "rows"
    /\ cpc' = "returned"
    /\ UNCHANGED <<row, header, counts, total, ncols, nestedVars, flatVars, missVars, jsonVars>>

NextCsv ==
    \/ csv_no_header
    \/ csv_read_header
    \/ csv_read_row
    \/ csv_return

InitCsv == CsvEntry /\ IdleNested /\ IdleFlat /\ IdleMiss /\ IdleJson
SpecCsv == InitCsv /\ [][NextCsv]_vars

(* Properties of csv_with_stdlib *)

\* C10: whatever the header row (a name may repeat) and the data rows, every
\* count reported is between 0 and the number of data rows read.
C10_CsvCountWithinTotal ==
    \A k \in DOMAIN counts : 0 <= counts[k] /\ counts[k] <= total

----------------------------------------------------------------------------
(* count_missing.py: json_with_stdlib *)

\* flat records (no value is a dict): sparse, with missing tokens, with falsy
\* values, with an empty key and a key that holds the separator
FlatRecords ==
    { Dict(<<>>),
      Dict(<<Item(<<"a">>, Str(<<"o","k">>))>>),
      Dict(<<Item(<<"a">>, Str(<<" ","N","A">>))>>),
      Dict(<<Item(<<"a">>, None)>>),
      Dict(<<Item(<<"a">>, Num(0)), Item(<<"b">>, Str(<<"n","/","a">>))>>),
      Dict(<<Item(<<"b">>, List(<<>>))>>),
      Dict(<<Item(<<"a">>, List(<<Num(1)>>)), Item(<<"b">>, Str(<<"o","k">>))>>),
      Dict(<<Item(<<>>, Str(<<"o","k">>)), Item(<<"a",".","b">>, None)>>) }
NestedRecords == { Dict(<<Item(<<"a">>, Dict(<<Item(<<"b">>, None)>>))>>) }
JsonMembers == FlatRecords \cup NestedRecords \cup NonObjects
JsonRoots == {List(elems) : elems \in SeqsUpTo(JsonMembers, MaxRecords)} \cup NonListRoots

\* faulty variant: the value is compared without strip()
json_count_item_unstripped(cnt, item, keys, missing_set) ==
    LET hit == {k \in keys :
                   LET v == dict_get(item.items, k)
                   IN v = None \/ (isinstance_str(v) /\ lower(v.s) \in missing_set)}
    IN [k \in DOMAIN cnt \cup hit |-> dd_get(cnt, k) + IF k \in hit THEN 1 ELSE 0]

\* body of the second for loop, for one item that has a get method
json_count_item(cnt, item, keys, missing_set) ==
    LET hit == {k \in keys :
                   LET v == dict_get(item.items, k)
                   IN v = None \/ (isinstance_str(v) /\ lower(strip(v.s)) \in missing_set)}
    IN [k \in DOMAIN cnt \cup hit |-> dd_get(cnt, k) + IF k \in hit THEN 1 ELSE 0]

\* after json.load
JsonEntry ==
    /\ jdata \in JsonRoots
    /\ jpc = "start" /\ ji = 0 /\ jtotal = 0 /\ jkeys = {}
    /\ jcounts = EmptyCounts /\ jerr = "none"

json_reject_object ==
    /\ jpc = "start"
    /\ isinstance_dict(jdata)
    /\ jerr' = "SystemExit"
    /\ jpc' = "exit"
    /\ UNCHANGED <<jdata, ji, jtotal, jkeys, jcounts, nestedVars, flatVars, missVars, csvVars>>

json_reject_other ==
    /\ jpc = "start"
    /\ ~isinstance_dict(jdata)
    /\ ~isinstance_list(jdata)
    /\ jerr' = "SystemExit"
    /\ jpc' = "exit"
    /\ UNCHANGED <<jdata, ji, jtotal, jkeys, jcounts, nestedVars, flatVars, missVars, csvVars>>

json_enter ==
    /\ jpc = "start"
    /\ isinstance_list(jdata)
    /\ jtotal' = Len(jdata.elems)
    /\ jkeys' = {}
    /\ ji' = 1
    /\ jpc' = "keys"
    /\ UNCHANGED <<jdata, jcounts, jerr, nestedVars, flatVars, missVars, csvVars>>

\* one turn of the first loop
json_keys_step ==
    /\ jpc = "keys"
    /\ ji <= Len(jdata.elems)
    /\ jkeys' = IF isinstance_dict(jdata.elems[ji])
                THEN jkeys \cup dict_keys(jdata.elems[ji].items)
                ELSE jkeys
    /\ ji' = ji + 1
    /\ UNCHANGED <<jdata, jpc, jtotal, jcounts, jerr, nestedVars, flatVars, missVars, csvVars>>

json_keys_done ==
    /\ jpc = "keys"
    /\ ji > Len(jdata.elems)
    /\ jcounts' = EmptyCounts
    /\ ji' = 1
    /\ jpc' = "count"
    /\ UNCHANGED <<jdata, jtotal, jkeys, jerr, nestedVars, flatVars, missVars, csvVars>>

\* one turn of the second loop; with no key the inner loop does not run
json_count_step ==
    /\ jpc = "count"
    /\ ji <= Len(jdata.elems)
    /\ ~(jkeys # {} /\ ~isinstance_dict(jdata.elems[ji]))
    /\ jcounts' = IF jkeys = {} THEN jcounts
                  ELSE json_count_item(jcounts, jdata.elems[ji], jkeys, DEFAULT_MISSING)
    /\ ji' = ji + 1
    /\ UNCHANGED <<jdata, jpc, jtotal, jkeys, jerr, nestedVars, flatVars, missVars, csvVars>>

\* item.get on an item that is no dict
json_count_raise ==
    /\ jpc = "count"
    /\ ji <= Len(jdata.elems)
    /\ jkeys # {}
    /\ ~isinstance_dict(jdata.elems[ji])
    /\ jerr' = "AttributeError"
    /\ jpc' = "exit"
    /\ UNCHANGED <<jdata, ji, jtotal, jkeys, jcounts, nestedVars, flatVars, missVars, csvVars>>

json_return ==
    /\ jpc = "count"
    /\ ji > Len(jdata.elems)
    /\ jpc' = "returned"
    /\ UNCHANGED <<jdata, ji, jtotal, jkeys, jcounts, jerr, nestedVars, flatVars, missVars, csvVars>>

NextJson ==
    \/ json_reject_object
    \/ json_reject_other
    \/ json_enter
    \/ json_keys_step
    \/ json_keys_done
    \/ json_count_step
    \/ json_count_raise
    \/ json_return

InitJson == JsonEntry /\ IdleNested /\ IdleFlat /\ IdleMiss /\ IdleCsv
SpecJson == InitJson /\ [][NextJson]_vars

(* Properties of json_with_stdlib *)

\* a list of dicts none of whose values is a dict
FlatDataset ==
    /\ isinstance_list(jdata)
    /\ \A j \in 1..Len(jdata.elems) :
          /\ isinstance_dict(jdata.elems[j])
          /\ \A q \in 1..Len(jdata.elems[j].items) :
                ~isinstance_dict(jdata.elems[j].items[q].v)

\* C11: on a list of flat records json_with_stdlib returns, with the total and,
\* for every key of the key universe, the count that analyze_json_structure
\* returns (a key json_with_stdlib never counted reads as 0).
C11_FlatAnalysersAgree ==
    FlatDataset =>
        /\ jpc # "exit"
        /\ jpc = "returned" =>
              LET nested == analyze_json_structure(jdata)
              IN /\ jtotal = nested.total_records
                 /\ jkeys = nested.all_keys
                 /\ \A k \in nested.all_keys :
                       dd_get(jcounts, k) = dd_get(nested.missing_counts, k)

C11_Witness ==
    /\ FlatDataset /\ jpc = "returned" /\ Len(jdata.elems) = 3
    /\ \E k \in jkeys :
          /\ \E j \in 1..3 : k \notin dict_keys(jdata.elems[j].items)
          /\ \E j \in 1..3 : LET v == dict_get(jdata.elems[j].items, k)
                             IN isinstance_str(v) /\ v.s # <<>> /\ is_missing(v)
          /\ \E j \in 1..3 : ~is_missing(dict_get(jdata.elems[j].items, k))
          /\ jcounts[k] = 2
    /\ \E k \in jkeys : dd_get(jcounts, k) = 0

====
